---- MODULE Spec2Model ----
(***************************************************************************)
(* Model of src/deprecated/python_lesson1/main.py: the fingerprint         *)
(* matching pipeline (template extraction, sampling, matching through a    *)
(* worker pool, per-group persistence) and the functions it is built of.   *)
(*                                                                         *)
(* Strings are sequences of one-character strings, so that strip, split    *)
(* and int are computed as Python computes them.                           *)
(***************************************************************************)
EXTENDS Integers, Sequences, FiniteSets, TLC

\* ------------------------------------------------------------------ bounds
\* Largest number of images the manifest yields in a run.
MaxImages == 2
\* Longest gallery list handed to a single matcher call.
MaxGallery == 2
\* Longest scorer output (in characters) handed to a single matcher call.
MaxOut == 4
\* Number of worker processes of the pool.
NumWorkers == 2
\* Longest manifest line (in characters) of a one-line manifest.
MaxLine == 5
\* Largest number of lines of a manifest, and of path records handed to
\* locate_images.
MaxLines == 2
\* Longest file path (in symbols) of a single path record.
MaxPath == 4

\* ------------------------------------------------------------ Python strings
Digits == {"1", "2"}
Whitespace == {" ", "\n"}
\* The characters a scorer output is made of in this model: digits,
\* whitespace and one character that is neither.
Chars == Digits \cup Whitespace \cup {"x"}

DigitVal(c) == IF c = "1" THEN 1 ELSE 2

RECURSIVE lstrip(_)
lstrip(s) ==
    IF s = <<>> THEN s
    ELSE IF Head(s) \in Whitespace THEN lstrip(Tail(s)) ELSE s

RECURSIVE rstrip(_)
rstrip(s) ==
    IF s = <<>> THEN s
    ELSE IF s[Len(s)] \in Whitespace THEN rstrip(SubSeq(s, 1, Len(s) - 1)) ELSE s

\* str.strip()
strip(s) == rstrip(lstrip(s))

\* str.split('\n'): the pieces between newlines, empty pieces kept.
RECURSIVE split(_)
split(s) ==
    IF \A i \in 1..Len(s) : s[i] # "\n" THEN <<s>>
    ELSE LET i == CHOOSE k \in 1..Len(s) :
                      s[k] = "\n" /\ \A j \in 1..(k - 1) : s[j] # "\n"
         IN <<SubSeq(s, 1, i - 1)>> \o split(SubSeq(s, i + 1, Len(s)))

\* Whether int(s) succeeds: surrounding whitespace is ignored, the rest must
\* be a non-empty run of digits (the model's alphabet has no sign).
IsIntLiteral(s) ==
    LET t == strip(s)
    IN t # <<>> /\ \A i \in 1..Len(t) : t[i] \in Digits

RECURSIVE DigitsValue(_)
DigitsValue(t) ==
    IF t = <<>> THEN 0
    ELSE 10 * DigitsValue(SubSeq(t, 1, Len(t) - 1)) + DigitVal(t[Len(t)])

\* int(s), for s with IsIntLiteral(s)
int(s) == DigitsValue(strip(s))

\* map(int, parts) raises ValueError as soon as one part is no integer.
AllInts(parts) == \A i \in 1..Len(parts) : IsIntLiteral(parts[i])

Min(a, b) == IF a <= b THEN a ELSE b

\* All sequences over S of length at most n.
RECURSIVE SeqsUpTo(_, _)
SeqsUpTo(S, n) ==
    IF n = 0 THEN {<<>>}
    ELSE LET R == SeqsUpTo(S, n - 1)
         IN R \cup {Append(r, x) : r \in {q \in R : Len(q) = n - 1}, x \in S}

\* -------------------------------------------------------------- data classes
ChecksumKinds == {"md5", "sha1", "sha224", "sha256", "sha384", "sha512"}

\* class Path: a manifest record
Path(checksum, filepath) == [checksum |-> checksum, filepath |-> filepath]

\* class mindtct: the template of one image
mindtct(image, xyt) == [image |-> image, xyt |-> xyt]

\* class bozorth3: one match result
bozorth3(probe, gallery, score) == [probe |-> probe, gallery |-> gallery, score |-> score]

\* bozorth3.sql_insert_values: the row of a match result, in column order
sql_insert_values(r) == <<r.probe, r.gallery, r.score>>

\* -------------------------------------------------- outcomes of one call
\* The outcome of a call: it returned `value` or raised `exc`; `tempdir`
\* tells whether the scratch directory the call made still exists; `scorer`
\* and `extractor` count the invocations of the external executables.
Returned(value, tempdir, scorer, extractor) ==
    [kind |-> "return", exc |-> "", about |-> "", value |-> value,
     tempdir |-> tempdir, scorer |-> scorer, extractor |-> extractor]

Raised(exc, about, tempdir, scorer, extractor) ==
    [kind |-> "raise", exc |-> exc, about |-> about, value |-> <<>>,
     tempdir |-> tempdir, scorer |-> scorer, extractor |-> extractor]

\* finally: shutil.rmtree(tempdir)
rmtree(outcome) == [outcome EXCEPT !.tempdir = FALSE]

\* ------------------------------------------------------ Checksum(value, kind)
\* attrs calls the validator with (instance, attribute, value) and ignores
\* what it returns; only an exception raised by it stops the construction.
\* The validator of `kind` is a lambda that returns a boolean and never
\* raises.
Checksum_validator(kind) == kind \in ChecksumKinds

Checksum(value, kind) ==
    LET ignored == Checksum_validator(kind)
    IN Returned(<<[value |-> value, kind |-> kind]>>, FALSE, 0, 0)

\* -------------------------------------------------------- mindtct_from_image
\* env: what the extractor executable and the file system do in this call.
\*   exit   the exit status of `mindtct`
\*   readOk whether result.xyt can be opened and read
\*   xyt    the content of result.xyt
MindtctEnvs(xyts) == [exit : {0, 1}, readOk : BOOLEAN, xyt : xyts]

\* The body of the try block, entered with the scratch directory made.
mindtct_try(image, env) ==
    IF env.exit # 0 THEN Raised("CalledProcessError", "mindtct", TRUE, 0, 1)
    ELSE IF ~env.readOk THEN Raised("IOError", "result.xyt", TRUE, 0, 1)
    ELSE Returned(<<mindtct(image, env.xyt)>>, TRUE, 0, 1)

\* mindtct_from_image with the rmtree as the last statement of the try block
\* instead of in a finally clause.
mindtct_from_image_no_finally(image, env) ==
    LET o == mindtct_try(image, env)
    IN IF o.kind = "raise" THEN o ELSE rmtree(o)

mindtct_from_image(image, env) == rmtree(mindtct_try(image, env))

\* ------------------------------------------------------------- the matcher
\* env: what the file system and the scorer executable do in this call.
\*   wfail  0 when every scratch file is written; k when the k-th write
\*          raises (1 is probe.xyt, 1 + i is the i-th gallery file)
\*   exit   the exit status of `bozorth3`
\*   stdout what `bozorth3` printed
MatcherEnv(wfail, exit, stdout) == [wfail |-> wfail, exit |-> exit, stdout |-> stdout]

\* The try block with probe and gallery exchanged in the result.
group_try_swapped(probe, gallery, env) ==
    IF env.exit # 0 THEN Raised("CalledProcessError", "bozorth3", TRUE, 1, 0)
    ELSE IF ~IsIntLiteral(strip(env.stdout)) THEN Raised("ValueError", "int", TRUE, 1, 0)
    ELSE Returned(<<bozorth3(gallery.image, probe.image, int(strip(env.stdout)))>>,
                  TRUE, 1, 0)

\* bozorth3_from_group: the try block
group_try(probe, gallery, env) ==
    IF env.exit # 0 THEN Raised("CalledProcessError", "bozorth3", TRUE, 1, 0)
    ELSE IF ~IsIntLiteral(strip(env.stdout)) THEN Raised("ValueError", "int", TRUE, 1, 0)
    ELSE Returned(<<bozorth3(probe.image, gallery.image, int(strip(env.stdout)))>>,
                  TRUE, 1, 0)

\* bozorth3_from_group: mkdtemp and the two writes come before the try block.
bozorth3_from_group(probe, gallery, env) ==
    IF env.wfail \in 1..2 THEN Raised("IOError", "write", TRUE, 0, 0)
    ELSE rmtree(group_try(probe, gallery, env))

\* The try block refusing an output whose number of scores is not the
\* number of gallery templates.
one_to_many_try_strict(probe, galleryset, env) ==
    IF env.exit # 0 THEN Raised("CalledProcessError", "bozorth3", TRUE, 1, 0)
    ELSE LET result == strip(env.stdout)
             parts == split(result)
         IN IF ~AllInts(parts) \/ Len(parts) # Len(galleryset)
            THEN Raised("ValueError", "int", TRUE, 1, 0)
            ELSE Returned([i \in 1..Len(galleryset) |->
                             bozorth3(probe.image, galleryset[i].image, int(parts[i]))],
                          TRUE, 1, 0)

\* bozorth3_from_one_to_many: the try block
one_to_many_try(probe, galleryset, env) ==
    IF env.exit # 0 THEN Raised("CalledProcessError", "bozorth3", TRUE, 1, 0)
    ELSE LET result == strip(env.stdout)
             parts == split(result)
         IN IF ~AllInts(parts) THEN Raised("ValueError", "int", TRUE, 1, 0)
            ELSE Returned([i \in 1..Min(Len(parts), Len(galleryset)) |->
                             bozorth3(probe.image, galleryset[i].image, int(parts[i]))],
                          TRUE, 1, 0)

\* bozorth3_from_one_to_many: mkdtemp and the writes come before the try block.
bozorth3_from_one_to_many(probe, galleryset, env) ==
    IF env.wfail \in 1..(1 + Len(galleryset)) THEN Raised("IOError", "write", TRUE, 0, 0)
    ELSE rmtree(one_to_many_try(probe, galleryset, env))

\* bozorth3_input: probe and a gallery value. The gallery value carries its
\* Python type: [type |-> "mindtct" | "list" | ..., val |-> sequence of templates]
\* (a single template is the one-element sequence).
bozorth3_input(probe, gallery) == [probe |-> probe, gallery |-> gallery]

\* bozorth3_input.run. The else branch formats type(gallery), and `gallery`
\* is no local name there: it is looked up as a module global. globalGallery
\* is "" when the global is unbound (NameError) and else the type of the
\* value the global is bound to.
run(self, env, globalGallery) ==
    IF self.gallery.type = "mindtct"
    THEN bozorth3_from_group(self.probe, self.gallery.val[1], env)
    ELSE IF self.gallery.type = "list"
    THEN bozorth3_from_one_to_many(self.probe, self.gallery.val, env)
    ELSE IF globalGallery = "" THEN Raised("NameError", "gallery", FALSE, 0, 0)
    ELSE Raised("ValueError", globalGallery, FALSE, 0, 0)

\* run_bozorth3(input)
run_bozorth3(input, env, globalGallery) == run(input, env, globalGallery)

\* class image
image(id, path) == [id |-> id, path |-> path]

\* ------------------------------------------------------------- locate_paths
\* str.split() without argument: the maximal runs of non-whitespace.
RECURSIVE split_ws(_)
split_ws(s) ==
    LET t == lstrip(s)
    IN IF t = <<>> THEN <<>>
       ELSE LET n == IF \E k \in 1..Len(t) : t[k] \in Whitespace
                     THEN (CHOOSE k \in 1..Len(t) :
                              t[k] \in Whitespace /\ \A j \in 1..(k - 1) : t[j] \notin Whitespace) - 1
                     ELSE Len(t)
            IN <<SubSeq(t, 1, n)>> \o split_ws(SubSeq(t, n + 1, Len(t)))

\* os.path.join(a, b) on POSIX: an absolute b replaces a; else b is appended,
\* after a "/" unless a is empty or ends with one.
os_path_join(a, b) ==
    IF b # <<>> /\ b[1] = "/" THEN b
    ELSE IF a = <<>> \/ a[Len(a)] = "/" THEN a \o b
    ELSE a \o <<"/">> \o b

\* The loop body with the test `len(parts) >= 2`.
path_of_line_at_least_two(line, prefix) ==
    LET parts == split_ws(strip(line))
    IN IF Len(parts) < 2 THEN <<>>
       ELSE <<Path(Checksum(parts[1], "md5").value[1], os_path_join(prefix, parts[2]))>>

\* The loop body of locate_paths: what one line of the manifest yields.
path_of_line(line, prefix) ==
    LET parts == split_ws(strip(line))
    IN IF ~(Len(parts) = 2) THEN <<>>
       ELSE <<Path(Checksum(parts[1], "md5").value[1], os_path_join(prefix, parts[2]))>>

\* locate_paths: the records of the lines of the file, in file order. A line
\* read from the file ends with its newline.
RECURSIVE locate_paths(_, _)
locate_paths(lines, prefix) ==
    IF lines = <<>> THEN <<>>
    ELSE path_of_line(Head(lines) \o <<"\n">>, prefix) \o locate_paths(Tail(lines), prefix)

\* ------------------------------------------------------------ locate_images
\* The last position of character c in p, 0 when there is none (str.rfind).
rfind(p, c) ==
    IF \E k \in 1..Len(p) : p[k] = c
    THEN CHOOSE k \in 1..Len(p) : p[k] = c /\ \A j \in (k + 1)..Len(p) : p[j] # c
    ELSE 0

\* os.path.splitext(p): <<root, ext>>. The extension starts at the last dot
\* of the last path component, unless only dots precede it there.
splitext(p) ==
    LET sepIndex == rfind(p, "/")
        dotIndex == rfind(p, ".")
    IN IF dotIndex > sepIndex /\ \E k \in (sepIndex + 1)..(dotIndex - 1) : p[k] # "."
       THEN <<SubSeq(p, 1, dotIndex - 1), SubSeq(p, dotIndex, Len(p))>>
       ELSE <<p, <<>>>>

\* A predicate that tests the end of the file name instead of its extension.
predicate_endswith(path) ==
    LET p == path.filepath
    IN Len(p) >= 2 /\ SubSeq(p, Len(p) - 1, Len(p)) = <<".", "png">>

\* locate_images.predicate
predicate(path) == splitext(path.filepath)[2] \in {<<".", "png">>}

\* locate_images: itertools.ifilter keeps the order of the records.
locate_images(paths) ==
    LET kept == SelectSeq(paths, predicate)
    IN [i \in 1..Len(kept) |-> image(kept[i].checksum.value, kept[i])]

\* ------------------------------------------------------------------ state
VARIABLES
    \* a single call of one function (specification CallSpec)
    call,        \* the function called and its arguments
    env,         \* what the executables and the file system did in the call
    ret,         \* the outcome of the call
    \* the file system: the scratch directories that exist
    tempdirs,
    \* the run of the script (specification Spec)
    pc,          \* the position of the driving process
    perc_probe, perc_gallery,   \* sys.argv[3], sys.argv[4], as num/den
    images,      \* the image ids locate_images yields, in order
    batch,       \* the batch the pool is mapping or has mapped last
    dispatched,  \* number of tasks of the batch handed to workers
    running,     \* tasks of the batch a worker is executing
    finished,    \* tasks of the batch whose result has arrived
    results,     \* the result list of the batch, by task index
    taskEnv,     \* what the environment did in each finished task
    mindtctCalls, bozorth3Calls, \* invocations of each executable, by task
    failed,      \* the batch in which a task raised, "" when none did
    mindtcts, probes, gallery, input, bozorth3s,
    gi,          \* number of groups the persistence loop has committed
    table,       \* whether table bozorth3 exists
    txn,         \* rows inserted in the open transaction
    durable      \* committed rows of table bozorth3

callVars == <<call, env, ret>>
poolVars == <<batch, dispatched, running, finished, results, taskEnv>>
runVars == <<pc, perc_probe, perc_gallery, images, mindtctCalls, bozorth3Calls,
             failed, mindtcts, probes, gallery, input, bozorth3s, gi, table, txn,
             durable>>
vars == <<callVars, tempdirs, poolVars, runVars>>

NoCall == [fn |-> "none"]
NoEnv == [kind |-> "none"]
NoRet == [kind |-> "none"]

\* ------------------------------------------------- inputs of a single call
ImageIds == {"a", "b"}
Payloads == {"m"}
Templates == {mindtct(id, x) : id \in ImageIds, x \in Payloads}
\* Gallery values by Python type: a template, a list of templates, and
\* values of two other types.
GalleryValues ==
    {[type |-> "mindtct", val |-> <<t>>] : t \in Templates}
    \cup {[type |-> "list", val |-> s] : s \in SeqsUpTo(Templates, MaxGallery)}
    \cup {[type |-> "NoneType", val |-> <<>>]}
    \cup {[type |-> "tuple", val |-> <<t>>] : t \in Templates}
Stdouts == SeqsUpTo(Chars, MaxOut)

\* The characters of a manifest line: two token characters, the path
\* separator and the blank.
LineChars == {"c", "f", "/", " "}
\* Lines of several shapes: blank, one token, two tokens, two tokens with
\* more whitespace, three tokens.
SampleLines ==
    {<<>>, <<"c">>, <<"c", " ", "f">>, <<" ", "f", " ", " ", "c", " ">>,
     <<"c", " ", "f", " ", "c">>}
\* The manifests: every one-line file, and the files made of sample lines.
Manifests ==
    {<<l>> : l \in SeqsUpTo(LineChars, MaxLine)} \cup SeqsUpTo(SampleLines, MaxLines)
\* The dataset prefix, without and with a trailing separator.
Prefixes == {<<"d">>, <<"d", "/">>}

\* The symbols of a file path: a name character, the dot, the separator and
\* the letters png as one symbol.
PathChars == {"a", ".", "/", "png"}
\* Path records of several shapes, each with its own checksum: a png file, a
\* file with another extension, a file named .png, a png file in a
\* directory.
SampleRecords ==
    {Path([value |-> "h1", kind |-> "md5"], <<"a", ".", "png">>),
     Path([value |-> "h2", kind |-> "md5"], <<"a", ".", "a">>),
     Path([value |-> "h3", kind |-> "md5"], <<"a", "/", ".", "png">>),
     Path([value |-> "h4", kind |-> "md5"], <<"a", "/", "a", ".", "png">>)}
\* The inputs of locate_images: every single record, and the sequences of
\* sample records.
PathSeqs ==
    {<<Path([value |-> "h1", kind |-> "md5"], p)>> : p \in SeqsUpTo(PathChars, MaxPath)}
    \cup SeqsUpTo(SampleRecords, MaxLines)

LocateImagesCalls == {[fn |-> "locate_images", paths |-> ps] : ps \in PathSeqs}

LocatePathsCalls ==
    {[fn |-> "locate_paths", lines |-> m, prefix |-> p] : m \in Manifests, p \in Prefixes}

Calls ==
    {[fn |-> "Checksum", value |-> v, kind |-> k] :
        v \in ImageIds, k \in ChecksumKinds \cup {"crc32", "MD5"}}
    \cup {[fn |-> "mindtct_from_image", image |-> id] : id \in ImageIds}
    \cup {[fn |-> "run", self |-> bozorth3_input(p, g), globalGallery |-> gg] :
            p \in Templates, g \in GalleryValues, gg \in {"", "list"}}
    \cup LocatePathsCalls
    \cup LocateImagesCalls

\* Number of scratch files a matcher call writes.
Writes(self) ==
    IF self.gallery.type = "mindtct" THEN 2
    ELSE IF self.gallery.type = "list" THEN 1 + Len(self.gallery.val)
    ELSE 0

\* What can happen around one matcher call: a write fails, the scorer exits
\* non-zero, or it exits 0 having printed one of `outs`.
MatcherEnvs(self, outs) ==
    IF self.gallery.type \notin {"mindtct", "list"} THEN {MatcherEnv(0, 0, <<>>)}
    ELSE {MatcherEnv(k, 0, <<>>) : k \in 1..Writes(self)}
         \cup {MatcherEnv(0, 1, <<>>)}
         \cup {MatcherEnv(0, 0, s) : s \in outs}

IdleRun ==
    /\ pc = "idle" /\ perc_probe = [num |-> 0, den |-> 1]
    /\ perc_gallery = [num |-> 0, den |-> 1]
    /\ images = <<>> /\ batch = "none" /\ dispatched = 0 /\ running = {}
    /\ finished = {} /\ results = <<>> /\ taskEnv = <<>>
    /\ mindtctCalls = <<>> /\ bozorth3Calls = <<>> /\ failed = ""
    /\ mindtcts = <<>> /\ probes = <<>> /\ gallery = <<>> /\ input = <<>>
    /\ bozorth3s = <<>> /\ gi = 0 /\ table = FALSE /\ txn = <<>> /\ durable = <<>>

CallInit ==
    /\ call \in Calls /\ env = NoEnv /\ ret = NoRet /\ tempdirs = {}
    /\ IdleRun

\* The scratch directories after a call with outcome o.
Scratch(dirs, name, o) == IF o.tempdir THEN dirs \cup {name} ELSE dirs

CallChecksum ==
    /\ call.fn = "Checksum" /\ ret = NoRet
    /\ ret' = Checksum(call.value, call.kind)
    /\ UNCHANGED <<call, env, tempdirs, poolVars, runVars>>

CallMindtct ==
    /\ call.fn = "mindtct_from_image" /\ ret = NoRet
    /\ \E e \in MindtctEnvs(Payloads) :
         /\ env' = e
         /\ ret' = mindtct_from_image(call.image, e)
         /\ tempdirs' = Scratch(tempdirs, "tmp", mindtct_from_image(call.image, e))
    /\ UNCHANGED <<call, poolVars, runVars>>

CallRun ==
    /\ call.fn = "run" /\ ret = NoRet
    /\ \E e \in MatcherEnvs(call.self, Stdouts) :
         /\ env' = e
         /\ ret' = run(call.self, e, call.globalGallery)
         /\ tempdirs' = Scratch(tempdirs, "tmp", run(call.self, e, call.globalGallery))
    /\ UNCHANGED <<call, poolVars, runVars>>

CallLocatePaths ==
    /\ call.fn = "locate_paths" /\ ret = NoRet
    /\ ret' = Returned(locate_paths(call.lines, call.prefix), FALSE, 0, 0)
    /\ UNCHANGED <<call, env, tempdirs, poolVars, runVars>>

CallLocateImages ==
    /\ call.fn = "locate_images" /\ ret = NoRet
    /\ ret' = Returned(locate_images(call.paths), FALSE, 0, 0)
    /\ UNCHANGED <<call, env, tempdirs, poolVars, runVars>>

CallNext == CallChecksum \/ CallMindtct \/ CallRun \/ CallLocatePaths
    \/ CallLocateImages

\* One call of one function, over every input of Calls and every behaviour
\* of the executables and the file system.
CallSpec == CallInit /\ [][CallNext]_vars

\* ------------------------------------------------------------ the worker pool
\* multiprocessing.Pool.map hands the tasks of a batch to the workers in
\* submission order, the workers finish them in any order, and each result
\* is stored in the result list at the index of its task.
\* A pool that collects the results in the order in which they arrive.
PoolStoreArrival(res, done, i, value) ==
    [res EXCEPT ![Cardinality(done) + 1] = value]

PoolStore(res, done, i, value) == [res EXCEPT ![i] = value]

\* Submitting a batch of n tasks.
Submit(name, n) ==
    /\ batch' = name /\ dispatched' = 0 /\ running' = {} /\ finished' = {}
    /\ results' = [i \in 1..n |-> <<>>]
    /\ taskEnv' = [i \in 1..n |-> NoEnv]

\* A free worker takes the next task of the batch.
Dispatch ==
    /\ pc \in {"extract", "match"}
    /\ Cardinality(running) < NumWorkers
    /\ dispatched < Len(results)
    /\ dispatched' = dispatched + 1
    /\ running' = running \cup {dispatched + 1}
    /\ UNCHANGED <<callVars, tempdirs, batch, finished, results, taskEnv, runVars>>

\* ------------------------------------------------------------------- the run

AllIds == <<"a", "b", "c", "d", "e", "f">>
\* The image locate_images yields at position i: its id is the checksum of
\* its manifest line.
ImageAt(i) ==
    image(AllIds[i], Path([value |-> AllIds[i], kind |-> "md5"], <<AllIds[i], ".", "png">>))

Fractions == {[num |-> 0, den |-> 1], [num |-> 1, den |-> 2], [num |-> 1, den |-> 1]}

\* int(perc * len(mindtcts))
SampleSize(perc, n) == (perc.num * n) \div perc.den

\* A draw with replacement: k elements at any positions.
random_sample_with_replacement(population, k) ==
    {[i \in 1..k |-> population[f[i]]] : f \in [1..k -> 1..Len(population)]}

\* random.sample(population, k): any k elements at distinct positions, in
\* any order.
random_sample(population, k) ==
    {[i \in 1..k |-> population[f[i]]] :
        f \in {g \in [1..k -> 1..Len(population)] :
                 \A a, b \in 1..k : a # b => g[a] # g[b]}}

Zeros(n) == [i \in 1..n |-> 0]

\* The outputs the scorer prints in a run: k score lines, for every k up to
\* one more than the largest gallery, and an output that is no number.
RECURSIVE ScoreLines(_)
ScoreLines(k) ==
    IF k = 0 THEN <<>>
    ELSE IF k = 1 THEN <<"1">>
    ELSE ScoreLines(k - 1) \o <<"\n", IF k % 2 = 1 THEN "1" ELSE "2">>

RunStdouts == {ScoreLines(k) : k \in 0..(MaxImages + 1)} \cup {<<"x">>}

Init ==
    /\ call = NoCall /\ env = NoEnv /\ ret = NoRet /\ tempdirs = {}
    /\ pc = "start"
    /\ perc_probe \in Fractions /\ perc_gallery \in Fractions
    /\ \E n \in 0..MaxImages : images = [i \in 1..n |-> ImageAt(i)]
    /\ batch = "none" /\ dispatched = 0 /\ running = {} /\ finished = {}
    /\ results = <<>> /\ taskEnv = <<>>
    /\ mindtctCalls = <<>> /\ bozorth3Calls = <<>> /\ failed = ""
    /\ mindtcts = <<>> /\ probes = <<>> /\ gallery = <<>> /\ input = <<>>
    /\ bozorth3s = <<>> /\ gi = 0 /\ table = FALSE /\ txn = <<>> /\ durable = <<>>

\* lines 244-248: the pool, the connection, CREATE TABLE IF NOT EXISTS
CreateTable ==
    /\ pc = "start"
    /\ table' = TRUE
    /\ pc' = "load"
    /\ UNCHANGED <<callVars, tempdirs, poolVars, perc_probe, perc_gallery, images,
                   mindtctCalls, bozorth3Calls, failed, mindtcts, probes, gallery,
                   input, bozorth3s, gi, txn, durable>>

\* lines 251-256: the images are located and pool.map(mindtct_from_image, images)
\* submits one task per image
SubmitExtraction ==
    /\ pc = "load"
    /\ Submit("extract", Len(images))
    /\ mindtctCalls' = Zeros(Len(images))
    /\ pc' = "extract"
    /\ UNCHANGED <<callVars, tempdirs, perc_probe, perc_gallery, images,
                   bozorth3Calls, failed, mindtcts, probes, gallery, input,
                   bozorth3s, gi, table, txn, durable>>

\* A worker finishes mindtct_from_image(images[i]). A task that raises makes
\* pool.map raise in the driving process, which catches nothing.
ExtractTask ==
    /\ pc = "extract"
    /\ \E i \in running, e \in MindtctEnvs(Payloads) :
         LET o == mindtct_from_image(images[i].id, e)
         IN /\ running' = running \ {i}
            /\ taskEnv' = [taskEnv EXCEPT ![i] = e]
            /\ mindtctCalls' = [mindtctCalls EXCEPT ![i] = @ + o.extractor]
            /\ tempdirs' = Scratch(tempdirs, <<"extract", i>>, o)
            /\ IF o.kind = "raise"
               THEN /\ pc' = "error" /\ failed' = "extract"
                    /\ UNCHANGED <<finished, results>>
               ELSE /\ finished' = finished \cup {i}
                    /\ results' = PoolStore(results, finished, i, o.value)
                    /\ UNCHANGED <<pc, failed>>
    /\ UNCHANGED <<callVars, batch, dispatched, perc_probe, perc_gallery, images,
                   bozorth3Calls, mindtcts, probes, gallery, input, bozorth3s, gi,
                   table, txn, durable>>

\* lines 256-257: pool.map returns the templates
FinishExtraction ==
    /\ pc = "extract"
    /\ finished = 1..Len(results)
    /\ mindtcts' = [i \in 1..Len(results) |-> results[i][1]]
    /\ pc' = "sample"
    /\ UNCHANGED <<callVars, tempdirs, poolVars, perc_probe, perc_gallery, images,
                   mindtctCalls, bozorth3Calls, failed, probes, gallery, input,
                   bozorth3s, gi, table, txn, durable>>

\* lines 261-266: the two draws, one request per probe, and
\* pool.map(run_bozorth3, input) submits one task per request
Sample ==
    /\ pc = "sample"
    /\ \E ps \in random_sample(mindtcts, SampleSize(perc_probe, Len(mindtcts))),
          gs \in random_sample(mindtcts, SampleSize(perc_gallery, Len(mindtcts))) :
         /\ probes' = ps
         /\ gallery' = gs
         /\ input' = [i \in 1..Len(ps) |->
                         bozorth3_input(ps[i], [type |-> "list", val |-> gs])]
         /\ Submit("match", Len(ps))
         /\ bozorth3Calls' = Zeros(Len(ps))
    /\ pc' = "match"
    /\ UNCHANGED <<callVars, tempdirs, perc_probe, perc_gallery, images,
                   mindtctCalls, failed, mindtcts, bozorth3s, gi, table, txn,
                   durable>>

\* A matching task that inserts and commits its own results from the worker.
MatchTaskPersisting ==
    /\ pc = "match"
    /\ \E i \in running :
       \E e \in MatcherEnvs(input[i], RunStdouts) :
         LET o == run_bozorth3(input[i], e, "")
         IN /\ running' = running \ {i}
            /\ taskEnv' = [taskEnv EXCEPT ![i] = e]
            /\ bozorth3Calls' = [bozorth3Calls EXCEPT ![i] = @ + o.scorer]
            /\ tempdirs' = Scratch(tempdirs, <<"match", i>>, o)
            /\ durable' = durable \o [j \in 1..Len(o.value) |-> sql_insert_values(o.value[j])]
            /\ IF o.kind = "raise"
               THEN /\ pc' = "error" /\ failed' = "match"
                    /\ UNCHANGED <<finished, results>>
               ELSE /\ finished' = finished \cup {i}
                    /\ results' = PoolStore(results, finished, i, o.value)
                    /\ UNCHANGED <<pc, failed>>
    /\ UNCHANGED <<callVars, batch, dispatched, perc_probe, perc_gallery, images,
                   mindtctCalls, mindtcts, probes, gallery, input, bozorth3s, gi,
                   table, txn>>

\* A matching stage that isolates failures: a task that raises yields an
\* empty group and the batch goes on.
MatchTaskIsolated ==
    /\ pc = "match"
    /\ \E i \in running :
       \E e \in MatcherEnvs(input[i], RunStdouts) :
         LET o == run_bozorth3(input[i], e, "")
         IN /\ running' = running \ {i}
            /\ taskEnv' = [taskEnv EXCEPT ![i] = e]
            /\ bozorth3Calls' = [bozorth3Calls EXCEPT ![i] = @ + o.scorer]
            /\ tempdirs' = Scratch(tempdirs, <<"match", i>>, o)
            /\ finished' = finished \cup {i}
            /\ results' = PoolStore(results, finished, i, o.value)
            /\ UNCHANGED <<pc, failed>>
    /\ UNCHANGED <<callVars, batch, dispatched, perc_probe, perc_gallery, images,
                   mindtctCalls, mindtcts, probes, gallery, input, bozorth3s, gi,
                   table, txn, durable>>

\* A worker finishes run_bozorth3(input[i]). The workers were forked at line
\* 244, before the module global `gallery` is bound.
MatchTask ==
    /\ pc = "match"
    /\ \E i \in running :
       \E e \in MatcherEnvs(input[i], RunStdouts) :
         LET o == run_bozorth3(input[i], e, "")
         IN /\ running' = running \ {i}
            /\ taskEnv' = [taskEnv EXCEPT ![i] = e]
            /\ bozorth3Calls' = [bozorth3Calls EXCEPT ![i] = @ + o.scorer]
            /\ tempdirs' = Scratch(tempdirs, <<"match", i>>, o)
            /\ IF o.kind = "raise"
               THEN /\ pc' = "error" /\ failed' = "match"
                    /\ UNCHANGED <<finished, results>>
               ELSE /\ finished' = finished \cup {i}
                    /\ results' = PoolStore(results, finished, i, o.value)
                    /\ UNCHANGED <<pc, failed>>
    /\ UNCHANGED <<callVars, batch, dispatched, perc_probe, perc_gallery, images,
                   mindtctCalls, mindtcts, probes, gallery, input, bozorth3s, gi,
                   table, txn, durable>>

\* A map that hands over the groups as soon as one task has finished.
FinishMatchingEarly ==
    /\ pc = "match"
    /\ finished # {}
    /\ bozorth3s' = results
    /\ pc' = "persist"
    /\ UNCHANGED <<callVars, tempdirs, poolVars, perc_probe, perc_gallery, images,
                   mindtctCalls, bozorth3Calls, failed, mindtcts, probes, gallery,
                   input, gi, table, txn, durable>>

\* line 266: pool.map returns the groups
FinishMatching ==
    /\ pc = "match"
    /\ finished = 1..Len(results)
    /\ bozorth3s' = results
    /\ pc' = "persist"
    /\ UNCHANGED <<callVars, tempdirs, poolVars, perc_probe, perc_gallery, images,
                   mindtctCalls, bozorth3Calls, failed, mindtcts, probes, gallery,
                   input, gi, table, txn, durable>>

\* Rows with duplicate filtering: a result of a template matched against
\* itself is not inserted.
GroupRowsNoSelf(group) ==
    LET kept == SelectSeq(group, LAMBDA r : r.probe # r.gallery)
    IN [j \in 1..Len(kept) |-> sql_insert_values(kept[j])]

GroupRows(group) == [j \in 1..Len(group) |-> sql_insert_values(group[j])]

\* lines 267-269: executemany inserts the rows of the next group in the
\* transaction the sqlite3 module opens before the first INSERT
Executemany ==
    /\ pc = "persist"
    /\ gi < Len(bozorth3s)
    /\ txn' = txn \o GroupRows(bozorth3s[gi + 1])
    /\ pc' = "commit"
    /\ UNCHANGED <<callVars, tempdirs, poolVars, perc_probe, perc_gallery, images,
                   mindtctCalls, bozorth3Calls, failed, mindtcts, probes, gallery,
                   input, bozorth3s, gi, table, durable>>

\* A loop body without conn.commit(): the rows of every group stay in the
\* open transaction.
CommitMissing ==
    /\ pc = "commit"
    /\ gi' = gi + 1
    /\ pc' = "persist"
    /\ UNCHANGED <<callVars, tempdirs, poolVars, perc_probe, perc_gallery, images,
                   mindtctCalls, bozorth3Calls, failed, mindtcts, probes, gallery,
                   input, bozorth3s, table, txn, durable>>

\* lines 270-271: conn.commit(), then the group is printed
Commit ==
    /\ pc = "commit"
    /\ durable' = durable \o txn
    /\ txn' = <<>>
    /\ gi' = gi + 1
    /\ pc' = "persist"
    /\ UNCHANGED <<callVars, tempdirs, poolVars, perc_probe, perc_gallery, images,
                   mindtctCalls, bozorth3Calls, failed, mindtcts, probes, gallery,
                   input, bozorth3s, table>>

\* line 274: conn.close()
Close ==
    /\ pc = "persist"
    /\ gi = Len(bozorth3s)
    /\ pc' = "done"
    /\ UNCHANGED <<callVars, tempdirs, poolVars, perc_probe, perc_gallery, images,
                   mindtctCalls, bozorth3Calls, failed, mindtcts, probes, gallery,
                   input, bozorth3s, gi, table, txn, durable>>

\* The store raises in executemany or commit (sqlite3.Error): the exception
\* is not caught, the process exits and the open transaction is rolled back.
StoreError ==
    /\ pc \in {"persist", "commit"}
    /\ gi < Len(bozorth3s)
    /\ txn' = <<>>
    /\ failed' = "persist"
    /\ pc' = "error"
    /\ UNCHANGED <<callVars, tempdirs, poolVars, perc_probe, perc_gallery, images,
                   mindtctCalls, bozorth3Calls, mindtcts, probes, gallery, input,
                   bozorth3s, gi, table, durable>>

\* The process is killed: rows of an open transaction are lost, committed
\* rows stay.
Crash ==
    /\ pc \in {"start", "load", "extract", "sample", "match", "persist", "commit"}
    /\ txn' = <<>>
    /\ pc' = "crashed"
    /\ UNCHANGED <<callVars, tempdirs, poolVars, perc_probe, perc_gallery, images,
                   mindtctCalls, bozorth3Calls, failed, mindtcts, probes, gallery,
                   input, bozorth3s, gi, table, durable>>

Next ==
    \/ CreateTable \/ SubmitExtraction \/ Dispatch \/ ExtractTask
    \/ FinishExtraction \/ Sample \/ MatchTask \/ FinishMatching
    \/ Executemany \/ Commit \/ Close \/ StoreError \/ Crash

Spec == Init /\ [][Next]_vars

\* ------------------------------------------------------------------- claims
IsMatcherCall == call.fn = "run" /\ call.self.gallery.type \in {"mindtct", "list"}

\* C1: after every matcher call (pairwise or one-to-many) that returned or
\* raised, the scratch directory the call made no longer exists.
C1_MatcherScratchRemoved ==
    (IsMatcherCall /\ ret # NoRet) => "tmp" \notin tempdirs

\* C2: after every call of mindtct_from_image that returned or raised
\* (success, non-zero exit of the extractor, failure to read result.xyt), the
\* scratch directory the call made no longer exists.
C2_ExtractorScratchRemoved ==
    (call.fn = "mindtct_from_image" /\ ret # NoRet) =>
        (~ret.tempdir /\ "tmp" \notin tempdirs)

\* A call of mindtct_from_image in which the extractor exited 0, result.xyt
\* could not be read, the call raised and the scratch directory is gone.
C2_Witness ==
    /\ call.fn = "mindtct_from_image" /\ ret # NoRet
    /\ ret.kind = "raise" /\ ret.exc = "IOError"
    /\ env.exit = 0 /\ ~env.readOk /\ "tmp" \notin tempdirs

\* The match results computed in the run and not committed: the groups the
\* pool has results for and the persistence loop has not committed.
Uncommitted ==
    IF batch = "match" THEN {i \in finished : i > gi /\ results[i] # <<>>} ELSE {}

\* C3: at every point of a run, the match results computed and not yet
\* committed belong to at most one probe's group.
C3_AtMostOneGroupAtRisk == Cardinality(Uncommitted) <= 1

RECURSIVE RowsOf(_, _)
\* The rows of the first k groups, in insertion order.
RowsOf(groups, k) ==
    IF k = 0 THEN <<>> ELSE RowsOf(groups, k - 1) \o GroupRows(groups[k])

\* C4: in every state of a run (every crash point, and after a crash or an
\* error) the committed rows are exactly the rows of the first gi groups, a
\* whole number of groups, and the open transaction holds nothing or the
\* rows of the one group after them.
C4_GroupsCommittedAsPrefix ==
    /\ gi <= Len(bozorth3s)
    /\ durable = RowsOf(bozorth3s, gi)
    /\ \/ txn = <<>>
       \/ gi < Len(bozorth3s) /\ pc = "commit" /\ txn = GroupRows(bozorth3s[gi + 1])

\* A crash after the first of two non-empty groups was committed: exactly the
\* first group's rows are durable.
C4_Witness ==
    /\ pc = "crashed" /\ Len(bozorth3s) = 2 /\ gi = 1
    /\ bozorth3s[1] # <<>> /\ bozorth3s[2] # <<>>
    /\ durable = GroupRows(bozorth3s[1])

\* C5: once the draws are made and the probe set or the gallery set is
\* empty, no match request is built, the scorer is never invoked, no row is
\* persisted and the run does not end with an error.
C5_EmptySampleNoRequests ==
    (batch = "match" /\ (probes = <<>> \/ gallery = <<>>)) =>
        /\ input = <<>>
        /\ \A i \in DOMAIN bozorth3Calls : bozorth3Calls[i] = 0
        /\ durable = <<>>
        /\ ~(pc = "error" /\ failed = "match")

\* C6: bozorth3_input.run with a gallery that is neither a template nor a
\* list raises ValueError, whose message names the type of that gallery
\* value, and invokes no scorer.
C6_InvalidGalleryValueError ==
    (call.fn = "run" /\ call.self.gallery.type \notin {"mindtct", "list"}
       /\ ret # NoRet) =>
        /\ ret.kind = "raise" /\ ret.exc = "ValueError"
        /\ ret.about = call.self.gallery.type
        /\ ret.scorer = 0

\* The integer literals a scorer prints, and the output made of the given
\* lines.
IntLits == SeqsUpTo(Digits, MaxOut) \ {<<>>}

RECURSIVE JoinLines(_)
JoinLines(ls) ==
    IF ls = <<>> THEN <<>>
    ELSE IF Len(ls) = 1 THEN ls[1]
    ELSE ls[1] \o <<"\n">> \o JoinLines(Tail(ls))

\* C7: a one-to-many call on a gallery of N templates whose scratch files
\* were written and whose scorer exited 0 having printed N newline-separated
\* integers returns the N results of the gallery templates in order, the
\* i-th with the i-th integer as score.
C7_OneToManyAligned ==
    (call.fn = "run" /\ call.self.gallery.type = "list" /\ ret # NoRet
       /\ env.wfail = 0 /\ env.exit = 0) =>
        LET g == call.self.gallery.val
        IN \A lits \in {l \in SeqsUpTo(IntLits, MaxGallery) : Len(l) = Len(g)} :
             env.stdout = JoinLines(lits) =>
               /\ ret.kind = "return"
               /\ ret.value = [i \in 1..Len(g) |->
                                 bozorth3(call.self.probe.image, g[i].image,
                                          DigitsValue(lits[i]))]

\* C8: constructing a Checksum whose kind is not one of the six kinds fails,
\* and no Checksum with another kind is created.
C8_ChecksumKindValidated ==
    (call.fn = "Checksum" /\ ret # NoRet) =>
        /\ call.kind \notin ChecksumKinds => ret.kind = "raise"
        /\ ret.kind = "return" => ret.value[1].kind \in ChecksumKinds

\* Whether the scorer output of a matching task cannot be parsed.
Unparseable(e) == ~AllInts(split(strip(e.stdout)))

\* C9: no executable is invoked twice for a task, and once an extractor
\* exited non-zero, a scorer exited non-zero or a scorer output did not
\* parse, the run has ended with an error and nothing was sampled, matched or
\* inserted after the batch of the failure.
C9_NoRetryFailureHalts ==
    /\ \A i \in DOMAIN mindtctCalls : mindtctCalls[i] <= 1
    /\ \A i \in DOMAIN bozorth3Calls : bozorth3Calls[i] <= 1
    /\ \A i \in DOMAIN taskEnv :
         /\ (batch = "extract" /\ taskEnv[i] # NoEnv /\ taskEnv[i].exit # 0)
              => failed = "extract"
         /\ (batch = "match" /\ taskEnv[i] # NoEnv /\ taskEnv[i].wfail = 0
               /\ (taskEnv[i].exit # 0 \/ Unparseable(taskEnv[i])))
              => failed = "match"
    /\ failed # "" => pc = "error"
    /\ failed = "extract" =>
         /\ batch = "extract" /\ probes = <<>> /\ gallery = <<>> /\ input = <<>>
         /\ bozorth3Calls = <<>> /\ durable = <<>> /\ txn = <<>>
    /\ failed = "match" => (bozorth3s = <<>> /\ durable = <<>> /\ txn = <<>>)

\* A run that ended with an error because the output of a scorer, invoked
\* once, did not parse, while another matching task had already succeeded.
C9_Witness ==
    /\ pc = "error" /\ failed = "match" /\ finished # {}
    /\ \E i \in DOMAIN taskEnv :
         /\ taskEnv[i] # NoEnv /\ taskEnv[i].wfail = 0 /\ taskEnv[i].exit = 0
         /\ Unparseable(taskEnv[i]) /\ bozorth3Calls[i] = 1

\* C10: the list pool.map returns has one element per submitted task, the
\* i-th being the result of the i-th task: the template of the i-th image
\* after extraction, the group of the i-th request after matching.
C10_PoolMapKeepsOrder ==
    /\ (pc = "sample" \/ (batch = "match" /\ pc \in {"match", "persist", "commit", "done"})) =>
         /\ Len(mindtcts) = Len(images)
         /\ \A i \in 1..Len(images) : mindtcts[i].image = images[i].id
    /\ pc \in {"persist", "commit", "done"} =>
         /\ Len(bozorth3s) = Len(input)
         /\ \A i \in 1..Len(input) :
              bozorth3s[i] = run_bozorth3(input[i], taskEnv[i], "").value

\* The second matching task has delivered a non-empty group while the first
\* is still running: the results arrive out of submission order.
C10_Witness ==
    /\ batch = "match" /\ pc = "match"
    /\ finished = {2} /\ 1 \in running /\ results[2] # <<>>

\* Whether s is n integers, one per line: digits and newlines only, no empty
\* line, n - 1 newlines (nothing at all for n = 0).
IsScoreOutput(s, n) ==
    IF n = 0 THEN s = <<>>
    ELSE /\ s # <<>>
         /\ \A i \in 1..Len(s) : s[i] \in Digits \cup {"\n"}
         /\ s[1] # "\n" /\ s[Len(s)] # "\n"
         /\ \A i \in 1..(Len(s) - 1) : ~(s[i] = "\n" /\ s[i + 1] = "\n")
         /\ Cardinality({i \in 1..Len(s) : s[i] = "\n"}) = n - 1

\* Every extraction succeeded and every matching task that has finished wrote
\* its scratch files and had its scorer exit 0 with one score per gallery
\* template.
ExecutablesSucceeded ==
    /\ batch = "match"
    /\ \A i \in DOMAIN taskEnv :
         taskEnv[i] # NoEnv =>
           /\ taskEnv[i].wfail = 0 /\ taskEnv[i].exit = 0
           /\ IsScoreOutput(taskEnv[i].stdout, Len(gallery))

WorkerStep == Dispatch \/ ExtractTask \/ MatchTask

\* C12: no step of a worker changes the store (table, open transaction,
\* committed rows); every step that changes it is a step of the driving
\* process at the table creation or in the persistence loop, taken while no
\* worker is executing a task; and rows are pending only between the
\* executemany and the commit of one group.
C12_StoreOwnedByDriver ==
    [][ /\ WorkerStep => UNCHANGED <<table, txn, durable>>
        /\ (<<table, txn, durable>>' # <<table, txn, durable>>) =>
             (running = {} /\ pc \in {"start", "persist", "commit"})
        /\ (txn' # <<>>) => (pc' = "commit" /\ txn = <<>>) ]_vars

\* After both workers ran matching tasks and the first group was committed,
\* the driving process has the second group's rows in the open transaction.
C12_Witness ==
    /\ pc = "commit" /\ txn # <<>> /\ gi = 1 /\ durable # <<>>
    /\ running = {} /\ Cardinality(finished) = 2

\* The tokens of a line, told from the line itself: a token starts at a
\* non-blank character that is first or follows a blank, and runs to the last
\* non-blank character before the next blank.
TokenStarts(s) ==
    {i \in 1..Len(s) : s[i] \notin Whitespace /\ (i = 1 \/ s[i - 1] \in Whitespace)}

TokenAt(s, i) ==
    LET j == CHOOSE k \in i..Len(s) :
                 /\ \A m \in i..k : s[m] \notin Whitespace
                 /\ (k = Len(s) \/ s[k + 1] \in Whitespace)
    IN SubSeq(s, i, j)

\* The record claimed for a line: none unless it has exactly two tokens.
ClaimedRecord(s, prefix) ==
    IF Cardinality(TokenStarts(s)) # 2 THEN <<>>
    ELSE LET a == CHOOSE i \in TokenStarts(s) : \A k \in TokenStarts(s) : i <= k
             b == CHOOSE i \in TokenStarts(s) : \A k \in TokenStarts(s) : i >= k
         IN <<[checksum |-> [value |-> TokenAt(s, a), kind |-> "md5"],
               filepath |-> os_path_join(prefix, TokenAt(s, b))]>>

RECURSIVE ClaimedRecords(_, _)
ClaimedRecords(lines, prefix) ==
    IF lines = <<>> THEN <<>>
    ELSE ClaimedRecord(Head(lines), prefix) \o ClaimedRecords(Tail(lines), prefix)

\* C13: locate_paths returns, in file order, one record per line that has
\* exactly two whitespace-separated tokens (checksum value the first token,
\* kind md5, filepath os.path.join(prefix, second token)) and nothing for
\* any other line, without raising.
C13_ManifestTwoTokenLines ==
    (call.fn = "locate_paths" /\ ret # NoRet) =>
        /\ ret.kind = "return"
        /\ ret.value = ClaimedRecords(call.lines, call.prefix)

\* A manifest of two lines, one of two tokens and one of three: one record.
C13_Witness ==
    /\ call.fn = "locate_paths" /\ ret # NoRet
    /\ call.lines = <<<<"c", " ", "f", " ", "c">>, <<"c", " ", "f">>>>
    /\ Len(ret.value) = 1 /\ ret.value[1].checksum.value = <<"c">>

\* Whether the extension of file path p is .png, told from the path itself:
\* it ends with ".png" and, in the same path component, some character other
\* than a dot comes before that dot.
HasPngExtension(p) ==
    /\ Len(p) >= 3 /\ p[Len(p)] = "png" /\ p[Len(p) - 1] = "."
    /\ \E k \in 1..(Len(p) - 2) :
         p[k] # "." /\ \A m \in k..(Len(p) - 2) : p[m] # "/"

\* C14: locate_images returns exactly the records whose extension is .png,
\* in their order, each as the image whose id is the checksum value of the
\* record and whose path is the record.
C14_ImagesArePngRecordsInOrder ==
    (call.fn = "locate_images" /\ ret # NoRet) =>
        LET kept == SelectSeq(call.paths, LAMBDA r : HasPngExtension(r.filepath))
        IN /\ ret.kind = "return"
           /\ Len(ret.value) = Len(kept)
           /\ \A i \in 1..Len(kept) :
                ret.value[i].id = kept[i].checksum.value /\ ret.value[i].path = kept[i]
           /\ \A i \in 1..Len(ret.value) :
                splitext(ret.value[i].path.filepath)[2] = <<".", "png">>

\* Two records, the first named .png in a directory and dropped, the second
\* a png file and kept.
C14_Witness ==
    /\ call.fn = "locate_images" /\ ret # NoRet
    /\ Len(call.paths) = 2 /\ call.paths[1].checksum.value = "h3"
    /\ Len(ret.value) = 1 /\ ret.value[1].id = "h4"

\* Whether draw is a sample of floor(perc * N) of the N templates, without
\* replacement: k = floor(perc * N) is told by k <= perc * N < k + 1.
IsSampleOf(draw, perc) ==
    LET N == Len(mindtcts)
        k == Len(draw)
    IN /\ k * perc.den <= perc.num * N
       /\ perc.num * N < (k + 1) * perc.den
       /\ \A i \in 1..k : \E m \in 1..N : draw[i] = mindtcts[m]
       /\ \A a, b \in 1..k : a # b => draw[a] # draw[b]

IsIntegerLineAt(s, i, j) ==
    /\ i <= j
    /\ \A k \in 1..Len(s) :
         IF k < i \/ k > j THEN s[k] \in Whitespace ELSE s[k] \in Digits

\* C16: a pairwise call whose scratch files were written and whose scorer
\* exited 0 having printed one integer, with or without whitespace around
\* it, returns the one result with the probe's image, the gallery
\* template's image and that integer as score.
C16_PairwiseSingleScore ==
    (call.fn = "run" /\ call.self.gallery.type = "mindtct" /\ ret # NoRet
       /\ env.wfail = 0 /\ env.exit = 0) =>
        \A i, j \in 1..Len(env.stdout) :
          IsIntegerLineAt(env.stdout, i, j) =>
            /\ ret.kind = "return"
            /\ ret.value = <<bozorth3(call.self.probe.image,
                                      call.self.gallery.val[1].image,
                                      DigitsValue(SubSeq(env.stdout, i, j)))>>

\* The scorer printed "12\n" for a probe and a gallery template of
\* different images, and the call returned.
C16_Witness ==
    /\ call.fn = "run" /\ call.self.gallery.type = "mindtct" /\ ret # NoRet
    /\ env.wfail = 0 /\ env.exit = 0 /\ env.stdout = <<"1", "2", "\n">>
    /\ call.self.probe.image # call.self.gallery.val[1].image
    /\ ret.kind = "return" /\ ret.value[1].score = 12

\* The number of integers in s: its maximal runs of digits.
DigitRuns(s) ==
    Cardinality({k \in 1..Len(s) : s[k] \in Digits /\ (k = 1 \/ s[k - 1] \notin Digits)})

IsOneToManyCall == call.fn = "run" /\ call.self.gallery.type = "list" /\ ret # NoRet

\* C17 as stated: a one-to-many call that returns normally returns exactly
\* N results, N the length of the gallery sequence, whatever the scorer
\* printed.
C17_ReturnsExactlyN ==
    (IsOneToManyCall /\ ret.kind = "return") =>
        Len(ret.value) = Len(call.self.gallery.val)

\* C17 amended: a one-to-many call that returns normally returns min(N, L)
\* results, L the number of integers the scorer printed, the i-th for the
\* i-th gallery template; and a call whose scratch files were written and
\* whose scorer exited 0 having printed L >= 1 newline-separated integers
\* does return normally.
C17_ReturnsMinOfGalleryAndScores ==
    IsOneToManyCall =>
        LET g == call.self.gallery.val
        IN /\ ret.kind = "return" =>
                /\ Len(ret.value) = Min(Len(g), DigitRuns(env.stdout))
                /\ \A i \in 1..Len(ret.value) :
                     /\ ret.value[i].probe = call.self.probe.image
                     /\ ret.value[i].gallery = g[i].image
           /\ (env.wfail = 0 /\ env.exit = 0) =>
                \A L \in 1..MaxOut :
                  IsScoreOutput(env.stdout, L) =>
                    (ret.kind = "return" /\ Len(ret.value) = Min(Len(g), L))

\* A gallery of 2 templates and a scorer that printed the one integer 1:
\* the call returned 1 result.
C17_Witness ==
    /\ IsOneToManyCall /\ Len(call.self.gallery.val) = 2
    /\ env.stdout = <<"1">> /\ ret.kind = "return" /\ Len(ret.value) = 1

ExtractorInvoked == \E i \in 1..Len(mindtctCalls) : mindtctCalls[i] > 0
ScorerInvoked == \E i \in 1..Len(bozorth3Calls) : bozorth3Calls[i] > 0
RowInserted == txn # <<>> \/ durable # <<>>

\* C18: an extractor is invoked only once the table exists; a scorer is
\* invoked only once every extraction task of the run has returned its
\* template; a row is inserted only once every matching task of the run has
\* returned its group; so a run in which a matching task fails has no row.
C18_StageBarriers ==
    /\ ExtractorInvoked => table
    /\ ScorerInvoked =>
         /\ batch = "match" /\ failed # "extract"
         /\ Len(mindtcts) = Len(images)
         /\ \A i \in 1..Len(images) :
              mindtctCalls[i] = 1 /\ mindtcts[i].image = images[i].id
    /\ RowInserted =>
         /\ batch = "match" /\ failed # "match"
         /\ finished = 1..Len(input) /\ running = {}
         /\ bozorth3s = results
    /\ failed = "match" => ~RowInserted

\* A matching task failed after another had returned a non-empty group, and
\* the store has no row.
C18_Witness ==
    /\ pc = "error" /\ failed = "match"
    /\ \E i \in finished : results[i] # <<>>
    /\ ~RowInserted

====
